---- MODULE Spec2Model ----
(***************************************************************************)
(* Readmission case study: the label detector and feature preparer of the  *)
(* trainer (src/src/readmission/train.py), the serving layer               *)
(* (src/app/main.py) and the batch CLI (src/src/readmission/score_cli.py). *)
(*                                                                         *)
(* Column names and string cells are sequences of one-character strings,   *)
(* so that lower(), strip(), endswith() and the substring test are         *)
(* computed, not assumed.  A table cell is a record [t, n, s]: t is "num", *)
(* "str" or "nan", n the number, s the string.                             *)
(***************************************************************************)
EXTENDS Integers, Sequences, FiniteSets, TLC

VARIABLES
    det,                \* train.py: one call of _detect_label_column
    MODEL_PATH_ENV,     \* main.py: the configured model path
    store,              \* the object held at the model path (file or gs:// blob)
    tmp_file,           \* the content of <tmp>/model.joblib
    _DOWNLOADED_PATH,   \* main.py global
    _bundle,            \* main.py global
    _expected_features, \* main.py global
    req,                \* the requests of the process and their handlers
    running,            \* the request whose handler the event loop runs, or 0
    started,            \* history: the requests in the order their handlers began
    loadedBy,           \* history: the requests whose joblib.load returned
    nDownloads,         \* history: completed downloads of the remote object
    cli,                \* score_cli.py: one run of score_csv
    tr                  \* train.py: one run of train_and_save

vars == <<det, MODEL_PATH_ENV, store, tmp_file, _DOWNLOADED_PATH, _bundle,
          _expected_features, req, running, started, loadedBy, nDownloads, cli, tr>>

(***************************************************************************)
(* Strings                                                                 *)
(***************************************************************************)
UpperChars == <<"A","B","C","D","E","F","G","H","I","J","K","L","M",
                "N","O","P","Q","R","S","T","U","V","W","X","Y","Z">>
LowerChars == <<"a","b","c","d","e","f","g","h","i","j","k","l","m",
                "n","o","p","q","r","s","t","u","v","w","x","y","z">>

\* str.lower() on one character
LowerChar(ch) ==
    IF \E i \in 1..Len(UpperChars) : UpperChars[i] = ch
    THEN LowerChars[CHOOSE i \in 1..Len(UpperChars) : UpperChars[i] = ch]
    ELSE ch

\* str.lower()
Lower(s) == [i \in 1..Len(s) |-> LowerChar(s[i])]

\* sub in s
Contains(s, sub) ==
    \E i \in 0..(Len(s) - Len(sub)) : SubSeq(s, i + 1, i + Len(sub)) = sub

\* s.endswith(suf)
EndsWith(s, suf) ==
    /\ Len(s) >= Len(suf)
    /\ SubSeq(s, Len(s) - Len(suf) + 1, Len(s)) = suf

\* x in seq
InSeq(x, seq) == \E i \in 1..Len(seq) : seq[i] = x

\* the sequences over S of length at most n without a repeated element
RECURSIVE DistinctSeqs(_, _)
DistinctSeqs(S, n) ==
    IF n = 0 THEN {<<>>}
    ELSE LET shorter == DistinctSeqs(S, n - 1)
         IN  shorter \cup
             {Append(p[1], p[2]) : p \in {q \in shorter \X S : ~InSeq(q[2], q[1])}}

(***************************************************************************)
(* train.py: _detect_label_column                                          *)
(***************************************************************************)
\* the fixed alias priority list
aliases == <<
    <<"r","e","a","d","m","i","t","t","e","d">>,
    <<"r","e","a","d","m","i","s","s","i","o","n">>,
    <<"r","e","a","d","m","i","s","s","i","o","n","_","3","0","d">>,
    <<"r","e","a","d","m","i","t","t","e","d","_","3","0","d">>,
    <<"i","s","_","r","e","a","d","m","i","t","t","e","d">>,
    <<"r","e","a","d","m","i","t">>,
    <<"r","e","a","d","m","i","t","_","3","0","d">>,
    <<"r","e","a","d","m","i","t","_","f","l","a","g">>,
    <<"t","a","r","g","e","t">> >>

\* the substring of the last detection stage
readmit == <<"r","e","a","d","m","i","t">>

\* Optional[str]: None, or a string
None == [some |-> FALSE, s |-> <<>>]
Some(s) == [some |-> TRUE, s |-> s]

\* the outcome of a call: a returned column, or ValueError
Returned(c) == [ok |-> TRUE, col |-> c]
ValueError == [ok |-> FALSE, col |-> <<>>]

\* for c in df.columns: if c.lower() == explicit.lower(): return c
ExplicitMatch(cols, explicit) ==
    IF InSeq(explicit, cols) THEN Returned(explicit)
    ELSE IF \E i \in 1..Len(cols) : Lower(cols[i]) = Lower(explicit)
    THEN Returned(cols[CHOOSE i \in 1..Len(cols) :
                        /\ Lower(cols[i]) = Lower(explicit)
                        /\ \A j \in 1..(i - 1) : Lower(cols[j]) # Lower(explicit)])
    ELSE ValueError

\* for a in aliases: if a in df.columns: return a
ExactAlias(cols) ==
    LET hits == {i \in 1..Len(aliases) : InSeq(aliases[i], cols)}
    IN  IF hits = {} THEN ValueError
        ELSE Returned(aliases[CHOOSE i \in hits : \A j \in hits : i <= j])

\* lower_map = {c.lower(): c for c in df.columns}: a later column replaces an
\* earlier one with the same lower-cased name
lower_map(cols, key) ==
    cols[CHOOSE i \in 1..Len(cols) :
            /\ Lower(cols[i]) = key
            /\ \A j \in (i + 1)..Len(cols) : Lower(cols[j]) # key]

\* for a in aliases: if a.lower() in lower_map: return lower_map[a.lower()]
CaseInsensitiveAlias(cols) ==
    LET hits == {i \in 1..Len(aliases) :
                    \E k \in 1..Len(cols) : Lower(cols[k]) = Lower(aliases[i])}
    IN  IF hits = {} THEN ValueError
        ELSE Returned(lower_map(cols,
                 Lower(aliases[CHOOSE i \in hits : \A j \in hits : i <= j])))

\* a slip: the last column containing 'readmit' instead of the first
SubstringColumnLast(cols) ==
    LET hits == {k \in 1..Len(cols) : Contains(Lower(cols[k]), readmit)}
    IN  IF hits = {} THEN ValueError
        ELSE Returned(cols[CHOOSE k \in hits : \A j \in hits : j <= k])

\* for c in df.columns: if 'readmit' in c.lower(): return c
SubstringColumn(cols) ==
    LET hits == {k \in 1..Len(cols) : Contains(Lower(cols[k]), readmit)}
    IN  IF hits = {} THEN ValueError
        ELSE Returned(cols[CHOOSE k \in hits : \A j \in hits : k <= j])

\* the alias stages, tried when no explicit name is given
AliasDetect(cols) ==
    IF ExactAlias(cols).ok THEN ExactAlias(cols)
    ELSE IF CaseInsensitiveAlias(cols).ok THEN CaseInsensitiveAlias(cols)
    ELSE SubstringColumn(cols)

\* a slip: an explicit name that matches no column falls through to the aliases
DetectWithFallback(cols, explicit) ==
    IF explicit.some /\ explicit.s # <<>> /\ ExplicitMatch(cols, explicit.s).ok
    THEN ExplicitMatch(cols, explicit.s)
    ELSE AliasDetect(cols)

_detect_label_column(cols, explicit) ==
    IF explicit.some /\ explicit.s # <<>>
    THEN ExplicitMatch(cols, explicit.s)
    ELSE AliasDetect(cols)

(***************************************************************************)
(* The detector applied to bounded tables                                  *)
(***************************************************************************)
MaxCols == 2

DetectNames == {
    <<"t","a","r","g","e","t">>,
    <<"T","a","r","g","e","t">>,
    <<"T","A","R","G","E","T">>,
    <<"R","e","a","d","m","i","t","_","F","l","a","g">>,
    <<"r","e","a","d","m","i","t","t","e","d">>,
    <<"R","E","A","D","M","I","T","T","E","D">>,
    <<"w","a","s","_","r","e","a","d","m","i","t">>,
    <<"R","e","a","d","m","i","t","s">>,
    <<"a","g","e">> }

ExplicitNames == {None, Some(<<>>), Some(<<"t","a","r","g","e","t">>), Some(<<"T","A","R","G","E","T">>),
                  Some(<<"l","a","b","e","l">>), Some(<<"A","g","e">>)}

InitDetect ==
    \E cols \in DistinctSeqs(DetectNames, MaxCols), explicit \in ExplicitNames :
        det = [pc |-> "call", cols |-> cols, explicit |-> explicit, out |-> ValueError]

\* label_col = _detect_label_column(claims, label_col)
DetectLabel ==
    /\ det.pc = "call"
    /\ det' = [det EXCEPT !.pc = "done",
                          !.out = _detect_label_column(det.cols, det.explicit)]
    /\ UNCHANGED <<MODEL_PATH_ENV, store, tmp_file, _DOWNLOADED_PATH, _bundle,
                   _expected_features, req, running, started, loadedBy, nDownloads,
                   cli, tr>>

\* no explicit name was given (None or the empty string: "if explicit" is false)
NoExplicit == ~det.explicit.some \/ det.explicit.s = <<>>

\* the least element of a non-empty set of integers
Least(S) == CHOOSE i \in S : \A j \in S : i <= j

ExactHits == {i \in 1..Len(aliases) : InSeq(aliases[i], det.cols)}
LowerHits == {i \in 1..Len(aliases) :
                 \E k \in 1..Len(det.cols) : Lower(det.cols[k]) = aliases[i]}
ReadmitHits == {k \in 1..Len(det.cols) : Contains(Lower(det.cols[k]), readmit)}

\* C3: with no explicit label name the detector returns the first alias that is
\* literally a column; else a column equal, ignoring case, to the first alias
\* that has such a column; else the first column in table order whose
\* lower-cased name contains 'readmit'; and it raises exactly when no stage
\* matches.
C3_AliasStages ==
    (det.pc = "done" /\ NoExplicit) =>
        /\ ExactHits # {} =>
              /\ det.out.ok
              /\ det.out.col = aliases[Least(ExactHits)]
        /\ (ExactHits = {} /\ LowerHits # {}) =>
              /\ det.out.ok
              /\ InSeq(det.out.col, det.cols)
              /\ Lower(det.out.col) = aliases[Least(LowerHits)]
        /\ (ExactHits = {} /\ LowerHits = {} /\ ReadmitHits # {}) =>
              /\ det.out.ok
              /\ det.out.col = det.cols[Least(ReadmitHits)]
        /\ det.out.ok <=> (ExactHits # {} \/ LowerHits # {} \/ ReadmitHits # {})

\* C3 happens: a mixed-case 'Readmit_Flag' is returned by the case-insensitive
\* stage although an earlier column contains 'readmit'
C3_Witness ==
    /\ det.pc = "done" /\ NoExplicit
    /\ det.cols = <<<<"w","a","s","_","r","e","a","d","m","i","t">>, <<"R","e","a","d","m","i","t","_","F","l","a","g">>>>
    /\ det.out = Returned(<<"R","e","a","d","m","i","t","_","F","l","a","g">>)

ExplicitHits == {k \in 1..Len(det.cols) : Lower(det.cols[k]) = Lower(det.explicit.s)}

\* C4 as stated: an explicit name that matches no column falls back to the
\* alias stages, and the error is raised only if those fail too.
C4_FallsBackToAliases ==
    (det.pc = "done" /\ ~NoExplicit /\ ExplicitHits = {}) =>
        det.out.ok <=> (ExactHits # {} \/ LowerHits # {} \/ ReadmitHits # {})

\* C4 (amended): an explicit name is returned itself when it is a column, else
\* the first column in table order equal to it ignoring case; when no column
\* matches it, the error is raised at once, whatever aliases the table holds.
C4_ExplicitOrError ==
    (det.pc = "done" /\ ~NoExplicit) =>
        /\ InSeq(det.explicit.s, det.cols) => det.out = Returned(det.explicit.s)
        /\ (~InSeq(det.explicit.s, det.cols) /\ ExplicitHits # {}) =>
              det.out = Returned(det.cols[Least(ExplicitHits)])
        /\ ExplicitHits = {} => ~det.out.ok

\* C4 happens: the explicit name matches nothing, an alias column exists, and
\* the call has raised
C4_Witness ==
    /\ det.pc = "done" /\ ~NoExplicit
    /\ ExplicitHits = {} /\ ExactHits # {}
    /\ ~det.out.ok

(***************************************************************************)
(* Tables                                                                  *)
(***************************************************************************)
IntCell(n) == [t |-> "int", n |-> n, s |-> <<>>]
FloatCell(n) == [t |-> "float", n |-> n, s |-> <<>>]
StrCell(s) == [t |-> "str", n |-> 0, s |-> s]
NaN == [t |-> "nan", n |-> 0, s |-> <<>>]

\* a pandas DataFrame: its column names in order, and its rows, each a
\* sequence of cells in column order
Frame(columns, data) == [columns |-> columns, data |-> data]
EmptyFrame == Frame(<<>>, <<>>)

\* the position of column c (its first, should a name repeat)
ColumnIndex(columns, c) ==
    CHOOSE j \in 1..Len(columns) :
        columns[j] = c /\ \A k \in 1..(j - 1) : columns[k] # c

\* key in row, row[key], for a row given as a sequence of <<key, value>> pairs
HasKey(row, key) == \E j \in 1..Len(row) : row[j][1] = key
ValueOf(row, key) == row[CHOOSE j \in 1..Len(row) : row[j][1] = key][2]

\* the keys of the rows in the order they first appear
RECURSIVE UnionKeys(_, _, _, _)
UnionKeys(rows, i, j, acc) ==
    IF i > Len(rows) THEN acc
    ELSE IF j > Len(rows[i]) THEN UnionKeys(rows, i + 1, 1, acc)
    ELSE UnionKeys(rows, i, j + 1,
                   IF InSeq(rows[i][j][1], acc) THEN acc
                   ELSE Append(acc, rows[i][j][1]))

\* pd.DataFrame(req.rows): one column per key, NaN where a row lacks the key
DataFrame(rows) ==
    LET columns == UnionKeys(rows, 1, 1, <<>>)
    IN  Frame(columns,
              [i \in 1..Len(rows) |->
                  [j \in 1..Len(columns) |->
                      IF HasKey(rows[i], columns[j])
                      THEN ValueOf(rows[i], columns[j]) ELSE NaN]])

\* X[col] = value: a new column at the end, the same value in every row
AddColumn(X, col, value) ==
    Frame(Append(X.columns, col),
          [i \in 1..Len(X.data) |-> Append(X.data[i], value)])

\* X.loc[:, exp]: the named columns, in the order named
Loc(X, exp) ==
    Frame(exp,
          [i \in 1..Len(X.data) |->
              [j \in 1..Len(exp) |-> X.data[i][ColumnIndex(X.columns, exp[j])]]])

(***************************************************************************)
(* main.py: the defaults and the aligner                                   *)
(***************************************************************************)
N_age == <<"a","g","e">>
N_bmi == <<"b","m","i">>
N_cost == <<"c","o","s","t">>
N_gender == <<"g","e","n","d","e","r">>
N_ethnicity == <<"e","t","h","n","i","c","i","t","y">>
N_insurance_type == <<"i","n","s","u","r","a","n","c","e","_","t","y","p","e">>
N_smoker == <<"s","m","o","k","e","r">>
N_icd_code == <<"i","c","d","_","c","o","d","e">>
N_label_eligible == <<"l","a","b","e","l","_","e","l","i","g","i","b","l","e">>
N_readmitted_missing == <<"r","e","a","d","m","i","t","t","e","d","_","m","i","s","s","i","n","g">>
N_bmi_was_missing == <<"b","m","i","_","w","a","s","_","m","i","s","s","i","n","g">>
N_zip == <<"z","i","p">>
N_notes == <<"n","o","t","e","s">>
Unknown == <<"U","n","k","n","o","w","n">>
was_missing_suffix == <<"_","w","a","s","_","m","i","s","s","i","n","g">>

categorical_defaults == <<
    <<N_gender, StrCell(Unknown)>>,
    <<N_ethnicity, StrCell(Unknown)>>,
    <<N_insurance_type, StrCell(Unknown)>>,
    <<N_smoker, StrCell(Unknown)>>,
    <<N_icd_code, StrCell(Unknown)>> >>

numeric_defaults == <<
    <<N_age, IntCell(0)>>,
    <<N_bmi, FloatCell(0)>>,
    <<N_cost, FloatCell(0)>>,
    <<N_label_eligible, IntCell(1)>>,
    <<N_readmitted_missing, IntCell(0)>> >>

\* a slip: the categorical table is not consulted, every column is numeric
DefaultForNumericOnly(col) ==
    IF EndsWith(col, was_missing_suffix) THEN IntCell(0)
    ELSE IF HasKey(numeric_defaults, col) THEN ValueOf(numeric_defaults, col)
    ELSE IntCell(0)

\* the value given to an expected column the input lacks
DefaultFor(col) ==
    IF EndsWith(col, was_missing_suffix) THEN IntCell(0)
    ELSE IF HasKey(categorical_defaults, col) THEN ValueOf(categorical_defaults, col)
    ELSE IF HasKey(numeric_defaults, col) THEN ValueOf(numeric_defaults, col)
    ELSE IntCell(0)

\* for col in exp: if col in X.columns: continue; X[col] = <default>
RECURSIVE AddDefaults(_, _, _)
AddDefaults(X, exp, k) ==
    IF k > Len(exp) THEN X
    ELSE IF InSeq(exp[k], X.columns) THEN AddDefaults(X, exp, k + 1)
    ELSE AddDefaults(AddColumn(X, exp[k], DefaultFor(exp[k])), exp, k + 1)

\* Optional[List[str]]
NoFeatures == [some |-> FALSE, names |-> <<>>]
Features(names) == [some |-> TRUE, names |-> names]

\* a slip: the missing columns are added but the result is not cut down to,
\* and ordered as, the expected list
AlignWithoutReorder(df, expected) ==
    IF ~expected.some \/ expected.names = <<>> THEN df
    ELSE AddDefaults(df, expected.names, 1)

\* the body of _align_input after the bundle is ensured: "if not
\* _expected_features: return df", else defaults added and X.loc[:, exp]
AlignBody(df, expected) ==
    IF ~expected.some \/ expected.names = <<>> THEN df
    ELSE Loc(AddDefaults(df, expected.names, 1), expected.names)

(***************************************************************************)
(* main.py: the serving process                                            *)
(***************************************************************************)
NumRequests == 2

Requests == 1..NumRequests

\* s.startswith(pre)
StartsWith(s, pre) == Len(s) >= Len(pre) /\ SubSeq(s, 1, Len(pre)) = pre

gs_prefix == <<"g","s",":","/","/">>
GsPath == <<"g","s",":","/","/","b","u","c","k","e","t","/","m","o","d","e","l",".","j","o","b","l","i","b">>
LocalPath == <<"a","r","t","i","f","a","c","t","s","/","m","o","d","e","l",".","j","o","b","l","i","b">>
TmpPath == <<"/","t","m","p","/","m","o","d","e","l",".","j","o","b","l","i","b">>

\* the value under 'feature_names': absent, or a list, tuple, str or int
NoFn == [t |-> "missing", names |-> <<>>]
Fn(t, names) == [t |-> t, names |-> names]

\* what joblib.load can return: a dict, some other object, or None
NoneObj == [kind |-> "none", has_pipeline |-> FALSE, pipeline |-> "", fn |-> NoFn]
DictObj(has_pipeline, fn) ==
    [kind |-> "dict", has_pipeline |-> has_pipeline,
     pipeline |-> IF has_pipeline THEN "fitted" ELSE "", fn |-> fn]
OtherObj == [kind |-> "other", has_pipeline |-> FALSE, pipeline |-> "", fn |-> NoFn]

FullFeatures == <<N_bmi_was_missing, N_gender, N_cost, N_label_eligible, N_zip, N_age>>

Artifacts == {
    DictObj(TRUE, Fn("list", FullFeatures)),
    DictObj(TRUE, Fn("tuple", <<N_gender, N_age>>)),
    DictObj(TRUE, Fn("str", <<N_age>>)),
    DictObj(TRUE, NoFn),
    DictObj(TRUE, Fn("list", <<>>)),
    DictObj(TRUE, Fn("int", <<>>)),
    DictObj(FALSE, Fn("list", <<N_age>>)),
    OtherObj,
    NoneObj }

\* the bodies of POST /score: lists of row dictionaries
Batches == {
    <<>>,
    << << <<N_age, IntCell(40)>>, <<N_gender, StrCell(<<"F">>)>> >> >>,
    << << <<N_gender, StrCell(<<"M">>)>>, <<N_age, IntCell(7)>>,
          <<N_notes, StrCell(<<"x">>)>> >> >>,
    << << <<N_zip, IntCell(9)>> >>,
       << <<N_age, IntCell(3)>>, <<N_bmi_was_missing, IntCell(1)>> >> >> }

IdleRequest ==
    [kind |-> "none", rows |-> <<>>, pc |-> "idle", call |-> 0, init |-> FALSE,
     early |-> FALSE, resolved |-> <<>>, pipe |-> "", X_raw |-> EmptyFrame,
     X |-> EmptyFrame, seen |-> NoFeatures, status |-> "none", n |-> 0]

cacheVars == <<_DOWNLOADED_PATH, _bundle, _expected_features>>
envVars == <<MODEL_PATH_ENV, store>>
histVars == <<started, loadedBy, nDownloads>>
\* the state of the other programs, which the serving process leaves alone
offServe == <<det, cli, tr>>

serveVars == <<MODEL_PATH_ENV, store, tmp_file, _DOWNLOADED_PATH, _bundle,
               _expected_features, req, running, started, loadedBy, nDownloads>>

InitServe ==
    /\ MODEL_PATH_ENV \in {GsPath, LocalPath}
    /\ store \in Artifacts
    /\ tmp_file = NoneObj
    /\ _DOWNLOADED_PATH = None
    /\ _bundle = NoneObj
    /\ _expected_features = NoFeatures
    /\ req = [r \in Requests |-> IdleRequest]
    /\ running = 0
    /\ started = <<>>
    /\ loadedBy = <<>>
    /\ nDownloads = 0

\* a slip: handlers declared "def", which the framework runs on a thread pool,
\* so that a handler may run between two steps of another
RunsOnThreadPool(r) == TRUE

\* the handlers are coroutines ("async def") without an await: the event loop
\* runs one handler from its first line to its return before the next
CanRun(r) == running \in {0, r}

\* the file joblib.load reads at a resolved path
ReadFile(path) == IF path = TmpPath THEN tmp_file ELSE store

\* an exception leaves the handler; the framework answers with an error
Raise(r, exc) ==
    /\ req' = [req EXCEPT ![r].pc = "done", ![r].status = exc]
    /\ running' = 0

\* the event loop accepts a request and schedules its handler
Arrive(r) ==
    /\ req[r].pc = "idle"
    /\ CanRun(r)
    /\ r > 1 => req[r - 1].pc # "idle"
    /\ \E kind \in {"healthz", "score", "metadata"} :
       \E rows \in IF kind = "score" THEN Batches ELSE {<<>>} :
           req' = [req EXCEPT ![r].kind = kind, ![r].rows = rows,
                              ![r].pc = "pending",
                              ![r].early = (_bundle = NoneObj)]
    /\ UNCHANGED <<envVars, tmp_file, cacheVars, running, histVars, offServe>>

\* the event loop starts the handler of a waiting request
Begin(r) ==
    /\ req[r].pc = "pending"
    /\ CanRun(r)
    /\ running' = r
    /\ started' = Append(started, r)
    /\ req' = [req EXCEPT ![r].pc = IF req[r].kind = "healthz" THEN "respond"
                                    ELSE "gp_check",
                          ![r].call = IF req[r].kind = "healthz" THEN 0 ELSE 1]
    /\ UNCHANGED <<envVars, tmp_file, cacheVars, loadedBy, nDownloads, offServe>>

\* a slip: the cached bundle is not consulted, every call loads again
GpCheckAlwaysLoads(r) ==
    /\ req[r].pc = "gp_check"
    /\ CanRun(r)
    /\ running' = r
    /\ req' = [req EXCEPT ![r].pc = "resolve", ![r].init = TRUE]
    /\ UNCHANGED <<envVars, tmp_file, cacheVars, histVars, offServe>>

\* _get_pipeline: if _bundle is None
GpCheck(r) ==
    /\ req[r].pc = "gp_check"
    /\ CanRun(r)
    /\ running' = r
    /\ req' = [req EXCEPT ![r].pc = IF _bundle = NoneObj THEN "resolve"
                                    ELSE "gp_return",
                          ![r].init = (req[r].init \/ _bundle = NoneObj)]
    /\ UNCHANGED <<envVars, tmp_file, cacheVars, histVars, offServe>>

\* _resolve_model_path: a local path, or a gs:// path already downloaded
Resolve(r) ==
    /\ req[r].pc = "resolve"
    /\ CanRun(r)
    /\ \/ /\ ~StartsWith(MODEL_PATH_ENV, gs_prefix)
          /\ req' = [req EXCEPT ![r].pc = "load", ![r].resolved = MODEL_PATH_ENV]
       \/ /\ StartsWith(MODEL_PATH_ENV, gs_prefix)
          /\ _DOWNLOADED_PATH # None
          /\ req' = [req EXCEPT ![r].pc = "load", ![r].resolved = _DOWNLOADED_PATH.s]
    /\ running' = r
    /\ UNCHANGED <<envVars, tmp_file, cacheVars, histVars, offServe>>

\* _resolve_model_path: blob.download_to_filename(local) returns
Download(r) ==
    /\ req[r].pc = "resolve"
    /\ CanRun(r)
    /\ StartsWith(MODEL_PATH_ENV, gs_prefix)
    /\ _DOWNLOADED_PATH = None
    /\ tmp_file' = store
    /\ _DOWNLOADED_PATH' = Some(TmpPath)
    /\ nDownloads' = nDownloads + 1
    /\ req' = [req EXCEPT ![r].pc = "load", ![r].resolved = TmpPath]
    /\ running' = r
    /\ UNCHANGED <<envVars, _bundle, _expected_features, started, loadedBy, offServe>>

\* _resolve_model_path: the client or the download raises
DownloadFails(r) ==
    /\ req[r].pc = "resolve"
    /\ CanRun(r)
    /\ StartsWith(MODEL_PATH_ENV, gs_prefix)
    /\ _DOWNLOADED_PATH = None
    /\ Raise(r, "download_error")
    /\ UNCHANGED <<envVars, tmp_file, cacheVars, histVars, offServe>>

\* _bundle = joblib.load(resolved)
Load(r) ==
    /\ req[r].pc = "load"
    /\ CanRun(r)
    /\ _bundle' = ReadFile(req[r].resolved)
    /\ loadedBy' = Append(loadedBy, r)
    /\ req' = [req EXCEPT ![r].pc = "gp_features"]
    /\ running' = r
    /\ UNCHANGED <<envVars, tmp_file, _DOWNLOADED_PATH, _expected_features,
                   started, nDownloads, offServe>>

\* joblib.load raises: the file is missing or cannot be read
LoadFails(r) ==
    /\ req[r].pc = "load"
    /\ CanRun(r)
    /\ Raise(r, "load_error")
    /\ UNCHANGED <<envVars, tmp_file, cacheVars, histVars, offServe>>

\* ef = _bundle.get('feature_names') and the assignment of _expected_features
GpFeatures(r) ==
    /\ req[r].pc = "gp_features"
    /\ CanRun(r)
    /\ \/ /\ _bundle.kind = "dict"
          /\ _bundle.fn.t = "missing"
          /\ UNCHANGED _expected_features
          /\ req' = [req EXCEPT ![r].pc = "gp_return"]
          /\ running' = r
       \/ /\ _bundle.kind = "dict"
          /\ _bundle.fn.t \in {"list", "tuple", "str"}
          /\ _expected_features' = Features(_bundle.fn.names)
          /\ req' = [req EXCEPT ![r].pc = "gp_return"]
          /\ running' = r
       \/ /\ _bundle.kind = "dict"
          /\ _bundle.fn.t = "int"
          /\ UNCHANGED _expected_features
          /\ Raise(r, "TypeError")
       \/ /\ _bundle.kind # "dict"
          /\ UNCHANGED _expected_features
          /\ Raise(r, "AttributeError")
    /\ UNCHANGED <<envVars, tmp_file, _DOWNLOADED_PATH, _bundle, histVars, offServe>>

\* return _bundle['pipeline'], and the caller's next line
GpReturn(r) ==
    /\ req[r].pc = "gp_return"
    /\ CanRun(r)
    /\ \/ /\ _bundle.kind = "dict" /\ _bundle.has_pipeline
          /\ req' = [req EXCEPT
                ![r].pipe = IF req[r].call = 1 THEN _bundle.pipeline ELSE @,
                ![r].pc = IF req[r].kind = "metadata" THEN "respond"
                          ELSE IF req[r].call = 1 THEN "frame" ELSE "align"]
          /\ running' = r
       \/ /\ _bundle.kind = "dict" /\ ~_bundle.has_pipeline
          /\ Raise(r, "KeyError")
       \/ /\ _bundle.kind # "dict"
          /\ Raise(r, "TypeError")
    /\ UNCHANGED <<envVars, tmp_file, cacheVars, histVars, offServe>>

\* score: X_raw = pd.DataFrame(req.rows), then the call of _align_input, whose
\* first line calls _get_pipeline again
MakeFrame(r) ==
    /\ req[r].pc = "frame"
    /\ CanRun(r)
    /\ req' = [req EXCEPT ![r].X_raw = DataFrame(req[r].rows),
                          ![r].call = 2, ![r].pc = "gp_check"]
    /\ running' = r
    /\ UNCHANGED <<envVars, tmp_file, cacheVars, histVars, offServe>>

\* the value _align_input returns for a frame and the expected features
_align_input(df, expected) == AlignBody(df, expected)

\* _align_input after its _get_pipeline call
Align(r) ==
    /\ req[r].pc = "align"
    /\ CanRun(r)
    /\ req' = [req EXCEPT ![r].X = _align_input(req[r].X_raw, _expected_features),
                          ![r].seen = _expected_features,
                          ![r].pc = "predict"]
    /\ running' = r
    /\ UNCHANGED <<envVars, tmp_file, cacheVars, histVars, offServe>>

\* score: probs = pipe.predict_proba(X)[:, 1], one probability per row of X
Predict(r) ==
    /\ req[r].pc = "predict"
    /\ CanRun(r)
    /\ req' = [req EXCEPT ![r].pc = "done", ![r].status = "ok",
                          ![r].n = Len(req[r].X.data)]
    /\ running' = 0
    /\ UNCHANGED <<envVars, tmp_file, cacheVars, histVars, offServe>>

\* metadata: the response with 'expected_features': _expected_features
Metadata(r) ==
    /\ req[r].pc = "respond"
    /\ req[r].kind = "metadata"
    /\ CanRun(r)
    /\ req' = [req EXCEPT ![r].pc = "done", ![r].status = "ok",
                          ![r].seen = _expected_features]
    /\ running' = 0
    /\ UNCHANGED <<envVars, tmp_file, cacheVars, histVars, offServe>>

\* healthz: {'status': 'ok'}
Healthz(r) ==
    /\ req[r].pc = "respond"
    /\ req[r].kind = "healthz"
    /\ CanRun(r)
    /\ req' = [req EXCEPT ![r].pc = "done", ![r].status = "ok"]
    /\ running' = 0
    /\ UNCHANGED <<envVars, tmp_file, cacheVars, histVars, offServe>>

(***************************************************************************)
(* Properties of the serving process                                       *)
(***************************************************************************)
\* the score requests whose rows have been aligned
Aligned == {r \in Requests :
               /\ req[r].kind = "score"
               /\ req[r].pc = "predict" \/ (req[r].pc = "done" /\ req[r].status = "ok")}

\* C1 as stated: whatever the loaded bundle, the aligned table's columns are
\* the bundle's recorded feature_names, in that order (none when the bundle
\* records none or an empty list).
C1_ColumnsAlwaysFeatureNames ==
    \A r \in Aligned : req[r].X.columns = _bundle.fn.names

\* C1 (amended): for a bundle that records a non-empty feature_names the
\* aligned table has exactly those columns in that order and as many rows as
\* the input; for a bundle whose feature_names is missing or empty the input
\* table is returned as it came.
C1_ColumnsOrPassThrough ==
    \A r \in Aligned :
        IF _bundle.fn.names # <<>>
        THEN /\ req[r].X.columns = _bundle.fn.names
             /\ Len(req[r].X.data) = Len(req[r].rows)
             /\ \A i \in 1..Len(req[r].X.data) :
                    Len(req[r].X.data[i]) = Len(_bundle.fn.names)
        ELSE req[r].X = DataFrame(req[r].rows)

\* C1 happens: rows with an extra column and the expected columns out of order
\* have been aligned to the six recorded features
C1_Witness ==
    \E r \in Aligned :
        /\ req[r].status = "ok"
        /\ req[r].X_raw.columns = <<N_gender, N_age, N_notes>>
        /\ req[r].X.columns = FullFeatures

\* C2: an expected column absent from the input holds, in every row, 0 when
\* its name ends in '_was_missing', else its categorical default, else its
\* numeric default, else 0; an expected column present in the input holds the
\* caller's values.
C2_DefaultsRule ==
    \A r \in Aligned :
        req[r].seen.some /\ req[r].seen.names # <<>> =>
            \A j \in 1..Len(req[r].X.columns) : \A i \in 1..Len(req[r].X.data) :
                LET c == req[r].X.columns[j]
                    v == req[r].X.data[i][j]
                IN  IF InSeq(c, req[r].X_raw.columns)
                    THEN v = req[r].X_raw.data[i][ColumnIndex(req[r].X_raw.columns, c)]
                    ELSE IF EndsWith(c, <<"_","w","a","s","_","m","i","s","s","i","n","g">>) THEN v = IntCell(0)
                    ELSE IF c \in {<<"g","e","n","d","e","r">>, <<"e","t","h","n","i","c","i","t","y">>, <<"i","n","s","u","r","a","n","c","e","_","t","y","p","e">>,
                                   <<"s","m","o","k","e","r">>, <<"i","c","d","_","c","o","d","e">>}
                    THEN v = StrCell(<<"U","n","k","n","o","w","n">>)
                    ELSE IF c = <<"a","g","e">> THEN v = IntCell(0)
                    ELSE IF c \in {<<"b","m","i">>, <<"c","o","s","t">>} THEN v = FloatCell(0)
                    ELSE IF c = <<"l","a","b","e","l","_","e","l","i","g","i","b","l","e">> THEN v = IntCell(1)
                    ELSE v = IntCell(0)

\* C2 happens: two rows that give zip, age and bmi_was_missing are scored
\* against the six recorded features; gender, cost and label_eligible are filled
C2_Witness ==
    \E r \in Aligned :
        /\ req[r].status = "ok"
        /\ req[r].X_raw.columns = <<N_zip, N_age, N_bmi_was_missing>>
        /\ req[r].X.columns = FullFeatures
        /\ req[r].X.data[2] = <<IntCell(1), StrCell(Unknown), FloatCell(0),
                                IntCell(1), NaN, IntCell(3)>>

\* the artifact loads: a dict with a pipeline whose feature_names, if any, is
\* a list, tuple or str
LoadableStore ==
    store.kind = "dict" /\ store.has_pipeline /\ store.fn.t # "int"

\* the feature list a single load of the artifact caches
LoadedFeatures ==
    IF store.fn.t = "missing" THEN NoFeatures ELSE Features(store.fn.names)

\* C7: requests that arrive while the bundle is unloaded each get the
\* artifact's pipeline and the feature list of a single load (a /score request
\* aligns to it, a /metadata request reports it), and when no handler is
\* running the cached bundle and feature list are those of a single load.
C7_FirstRequestsSeeOneLoad ==
    LoadableStore =>
        /\ \A r \in Requests :
              (req[r].early /\ req[r].status = "ok" /\ req[r].kind # "healthz") =>
                  /\ req[r].pipe = store.pipeline
                  /\ req[r].seen = LoadedFeatures
                  /\ (req[r].kind = "score" /\ store.fn.names # <<>>) =>
                        req[r].X.columns = store.fn.names
        /\ ((\A r \in Requests : req[r].pc \in {"idle", "pending", "done"})
                /\ _bundle # NoneObj) =>
              /\ _bundle = store
              /\ _expected_features = LoadedFeatures

\* C7 happens: two requests arrived before the bundle was loaded, the first
\* loaded it, and the /score request that came second was aligned to the
\* recorded features
C7_Witness ==
    /\ NumRequests >= 2
    /\ store.fn.names = FullFeatures
    /\ req[1].early /\ req[2].early
    /\ req[1].status = "ok" /\ req[2].status = "ok"
    /\ started = <<1, 2>> /\ loadedBy = <<1>>
    /\ req[2].kind = "score" /\ req[2].X.columns = FullFeatures

\* the positions in started of the /score and /metadata requests
Loaders == {i \in 1..Len(started) : req[started[i]].kind \in {"score", "metadata"}}

\* C8 as stated: nothing is loaded before the first /score or /metadata
\* request, that request loads the bundle, no other request ever does, the
\* remote object is downloaded at most once, and /healthz answers ok without
\* loading.
C8_LoadedOnceByFirstRequest ==
    /\ Loaders = {} => (_bundle = NoneObj /\ loadedBy = <<>> /\ nDownloads = 0)
    /\ Len(loadedBy) <= 1 /\ nDownloads <= 1
    /\ Loaders # {} =>
          LET first == started[Least(Loaders)]
          IN  req[first].pc = "done" => loadedBy = <<first>>
    /\ \A r \in Requests :
          (req[r].kind = "healthz" /\ req[r].pc = "done") =>
              req[r].status = "ok" /\ ~req[r].init

\* the request that takes the step, or 0 for an arrival
Actor == IF running' # 0 THEN running' ELSE running

\* C8 (amended): nothing is loaded or downloaded before the first /score or
\* /metadata request; the first such request whose download and load succeed
\* caches the bundle, and once a bundle is cached no step of any request loads
\* again or changes the bundle, and only the request that loaded it sets the
\* feature list; the remote object is downloaded successfully at most once;
\* a /healthz request answers ok and changes no cached state.
C8_NoReloadOnceCached ==
    [][ /\ Loaders = {} => (_bundle = NoneObj /\ loadedBy = <<>> /\ nDownloads = 0)
        /\ _bundle # NoneObj => (_bundle' = _bundle /\ loadedBy' = loadedBy)
        /\ (loadedBy # <<>> /\ Actor # loadedBy[Len(loadedBy)]) =>
              UNCHANGED <<_bundle, _expected_features>>
        /\ _DOWNLOADED_PATH # None =>
              UNCHANGED <<_DOWNLOADED_PATH, tmp_file, nDownloads>>
        /\ nDownloads <= 1
        /\ (Actor # 0 /\ req[Actor].kind = "healthz") =>
              /\ UNCHANGED <<_DOWNLOADED_PATH, tmp_file, _bundle,
                             _expected_features, loadedBy, nDownloads>>
              /\ req'[Actor].pc = "done" => req'[Actor].status = "ok"
      ]_vars

\* C8 happens: the first request loaded the bundle from a downloaded gs://
\* object and a later /score or /metadata request was served from the cache
C8_Witness ==
    /\ NumRequests >= 2
    /\ started = <<1, 2>> /\ loadedBy = <<1>> /\ nDownloads = 1
    /\ req[1].status = "ok" /\ req[2].status = "ok"
    /\ req[2].kind # "healthz" /\ ~req[2].init
    /\ _bundle = store

\* C10 as stated: a request whose lazy initialisation failed leaves the
\* cached bundle and the feature list unset (the state when no later handler
\* has begun).
C10_FailedInitLeavesCacheUnset ==
    \A r \in Requests :
        ( /\ req[r].pc = "done" /\ req[r].init
          /\ req[r].status \notin {"none", "ok"}
          /\ started # <<>> /\ started[Len(started)] = r ) =>
            (_bundle = NoneObj /\ _expected_features = NoFeatures)

(***************************************************************************)
(* score_cli.py: score_csv                                                 *)
(***************************************************************************)
readmitted_proba == <<"r","e","a","d","m","i","t","t","e","d","_","p","r","o","b","a">>

\* a probability the pipeline returns for a row
Proba == [t |-> "proba", n |-> 0, s |-> <<>>]

\* the input files: a header line and records (NaN is an empty field); the
\* first is an empty file
CsvFiles == {DataFrame(b) : b \in Batches} \cup
            {Frame(FullFeatures,
                   << <<IntCell(0), StrCell(<<"F">>), FloatCell(12), IntCell(1),
                        IntCell(9), IntCell(40)>> >>)}

CliOff ==
    [pc |-> "off", file |-> NoneObj, csv |-> EmptyFrame, pipe |-> "",
     df |-> EmptyFrame, handed |-> EmptyFrame, out |-> EmptyFrame,
     status |-> "none"]

InitCli ==
    \E file \in Artifacts, csv \in CsvFiles :
        cli = [CliOff EXCEPT !.pc = "load_model", !.file = file, !.csv = csv]

\* load_model: bundle = joblib.load(...); return bundle['pipeline']
CliLoadModel ==
    /\ cli.pc = "load_model"
    /\ \/ /\ cli.file.kind = "dict" /\ cli.file.has_pipeline
          /\ cli' = [cli EXCEPT !.pc = "read_csv", !.pipe = cli.file.pipeline]
       \/ /\ cli.file.kind = "dict" /\ ~cli.file.has_pipeline
          /\ cli' = [cli EXCEPT !.pc = "done", !.status = "KeyError"]
       \/ /\ cli.file.kind # "dict"
          /\ cli' = [cli EXCEPT !.pc = "done", !.status = "TypeError"]
    /\ UNCHANGED <<det, serveVars, tr>>

\* joblib.load raises: the file is missing or cannot be read
CliLoadFails ==
    /\ cli.pc = "load_model"
    /\ cli' = [cli EXCEPT !.pc = "done", !.status = "load_error"]
    /\ UNCHANGED <<det, serveVars, tr>>

\* df = pd.read_csv(input_csv): the header names the columns; a file without
\* a header line raises EmptyDataError
CliReadCsv ==
    /\ cli.pc = "read_csv"
    /\ IF cli.csv.columns = <<>>
       THEN cli' = [cli EXCEPT !.pc = "done", !.status = "EmptyDataError"]
       ELSE cli' = [cli EXCEPT !.pc = "predict",
                               !.df = Frame(cli.csv.columns, cli.csv.data)]
    /\ UNCHANGED <<det, serveVars, tr>>

\* the feature list a bundle records, as _get_pipeline reads it
ServedFeatures ==
    IF cli.file.fn.t \in {"list", "tuple", "str"}
    THEN Features(cli.file.fn.names) ELSE NoFeatures

\* probs = pipe.predict_proba(df)[:, 1]: df goes to the pipeline as read. The
\* fitted ColumnTransformer selects its columns by name and raises when one is
\* not in df. Otherwise out = df.copy(); out['readmitted_proba'] = probs;
\* out.to_csv(output_csv)
CliPredict ==
    /\ cli.pc = "predict"
    /\ IF \E i \in 1..Len(ServedFeatures.names) :
              ~InSeq(ServedFeatures.names[i], cli.df.columns)
       THEN cli' = [cli EXCEPT !.pc = "done", !.status = "ValueError",
                               !.handed = cli.df]
       ELSE cli' = [cli EXCEPT !.pc = "done", !.status = "ok",
                               !.handed = cli.df,
                               !.out = AddColumn(cli.df, readmitted_proba, Proba)]
    /\ UNCHANGED <<det, serveVars, tr>>

NextCli == CliLoadModel \/ CliLoadFails \/ CliReadCsv \/ CliPredict

\* C5: for a bundle the serving layer loads and a CSV of rows, the table the
\* CLI hands to predict_proba is the table _align_input gives /score for the
\* same rows.
C5_CliHandsAlignedTable ==
    ( /\ cli.pc = "done" /\ cli.status \in {"ok", "ValueError"}
      /\ cli.file.kind = "dict" /\ cli.file.has_pipeline /\ cli.file.fn.t # "int" ) =>
        /\ cli.handed = _align_input(cli.df, ServedFeatures)
        /\ cli.status = "ok"

(***************************************************************************)
(* train.py: prepare_features                                              *)
(***************************************************************************)
FollowupDays == 30
HighMissingPct == 60
TestSizePct == 25

DateCell(d) == [t |-> "date", n |-> d, s |-> <<>>]
NaT == [t |-> "nat", n |-> 0, s |-> <<>>]
BoolCell(b) == [t |-> "bool", n |-> IF b THEN 1 ELSE 0, s |-> <<>>]

\* isna()
IsNa(cell) == cell.t \in {"nan", "nat"}

\* the cells of column c, and the frame with that column's cells replaced
Col(X, c) == [i \in 1..Len(X.data) |-> X.data[i][ColumnIndex(X.columns, c)]]
SetColumn(X, c, cells) ==
    Frame(X.columns,
          [i \in 1..Len(X.data) |->
              [j \in 1..Len(X.columns) |->
                  IF j = ColumnIndex(X.columns, c) THEN cells[i] ELSE X.data[i][j]]])

\* X[c] = cells, for a new column c
AddCells(X, c, cells) ==
    Frame(Append(X.columns, c),
          [i \in 1..Len(X.data) |-> Append(X.data[i], cells[i])])

\* the rows at the given positions, and the columns but the dropped ones
Rows(X, idx) == Frame(X.columns, [k \in 1..Len(idx) |-> X.data[idx[k]]])

\* the elements of a sequence that satisfy a test, in order
RECURSIVE SelectFrom(_, _, _)
SelectFrom(seq, Keep(_), k) ==
    IF k > Len(seq) THEN <<>>
    ELSE (IF Keep(seq[k]) THEN <<seq[k]>> ELSE <<>>) \o SelectFrom(seq, Keep, k + 1)

\* the numbers 1..n as a sequence
Range(n) == [i \in 1..n |-> i]

DigitChars == <<"0","1","2","3","4","5","6","7","8","9">>

\* str(n) for n >= 0
RECURSIVE IntToStr(_)
IntToStr(n) ==
    IF n < 10 THEN <<DigitChars[n + 1]>>
    ELSE Append(IntToStr(n \div 10), DigitChars[(n % 10) + 1])

\* .astype(str) on one cell
AsStr(cell) ==
    CASE cell.t = "str" -> cell.s
      [] cell.t = "int" -> IntToStr(cell.n)
      [] cell.t = "float" -> IntToStr(cell.n) \o <<".", "0">>
      [] OTHER -> <<"n","a","n">>

Whitespace == {" ", "\t", "\n"}

\* str.strip()
RECURSIVE Strip(_)
Strip(s) ==
    IF s = <<>> THEN s
    ELSE IF s[1] \in Whitespace THEN Strip(Tail(s))
    ELSE IF s[Len(s)] \in Whitespace THEN Strip(SubSeq(s, 1, Len(s) - 1))
    ELSE s

\* the yes/no vocabulary
m == << <<<<"y","e","s">>, 1>>, <<<<"y">>, 1>>, <<<<"t","r","u","e">>, 1>>, <<<<"t">>, 1>>, <<<<"1">>, 1>>,
        <<<<"n","o">>, 0>>, <<<<"n">>, 0>>, <<<<"f","a","l","s","e">>, 0>>, <<<<"f">>, 0>>, <<<<"0">>, 0>> >>

\* .astype(str).str.strip().str.lower().map(m).astype('float') on one cell
MapLabel(cell) ==
    LET k == Lower(Strip(AsStr(cell)))
    IN  IF HasKey(m, k) THEN FloatCell(ValueOf(m, k)) ELSE NaN

\* pd.api.types.is_numeric_dtype: numbers and NaN only (a column read without
\* rows has dtype object)
is_numeric_dtype(cells) ==
    /\ Len(cells) > 0
    /\ \A i \in 1..Len(cells) : cells[i].t \in {"int", "float", "nan", "bool"}

\* the label column after lines 46-51
MappedLabels(cells) ==
    IF is_numeric_dtype(cells) THEN cells
    ELSE [i \in 1..Len(cells) |-> MapLabel(cells[i])]

date_names == <<<<"d","i","s","c","h","a","r","g","e","_","d","a","t","e">>, <<"i","n","d","e","x","_","d","i","s","c","h","a","r","g","e","_","d","a","t","e">>, <<"e","n","c","o","u","n","t","e","r","_","e","n","d">>,
                <<"c","l","a","i","m","_","e","n","d","_","d","a","t","e">>, <<"s","e","r","v","i","c","e","_","t","o">>>>

\* _date_candidates
date_candidates(columns) == SelectFrom(date_names, LAMBDA c : InSeq(c, columns), 1)

\* pd.to_datetime(..., errors='coerce') on one cell: a timestamp, or NaT for
\* what does not parse
ToDatetime(cell) == IF cell.t = "date" THEN cell ELSE NaT

\* Series.max(): the latest timestamp, NaT when there is none
MaxDate(cells) ==
    LET days == {cells[i].n : i \in {k \in 1..Len(cells) : cells[k].t = "date"}}
    IN  IF days = {} THEN NaT
        ELSE DateCell(CHOOSE d \in days : \A e \in days : e <= d)

\* a slip: the follow-up window compared with < instead of <=
label_eligible_strict(cell, max_date) ==
    /\ cell.t = "date" /\ max_date.t = "date"
    /\ cell.n < max_date.n - FollowupDays

\* claims[_dcol] <= (_max_date - _followup): false for NaT on either side
label_eligible(cell, max_date) ==
    /\ cell.t = "date" /\ max_date.t = "date"
    /\ cell.n <= max_date.n - FollowupDays

\* lines 46-64: the claims table with the label mapped, the date parsed and
\* the two flag columns added
FlaggedClaims(claims, label_col) ==
    LET c1 == SetColumn(claims, label_col, MappedLabels(Col(claims, label_col)))
        cands == date_candidates(c1.columns)
        c2 == IF cands # <<>>
              THEN LET dates == [i \in 1..Len(c1.data) |->
                                    ToDatetime(Col(c1, cands[1])[i])]
                       c1d == SetColumn(c1, cands[1], dates)
                   IN  AddCells(c1d, N_label_eligible,
                           [i \in 1..Len(dates) |->
                               BoolCell(label_eligible(dates[i], MaxDate(dates)))])
              ELSE AddColumn(c1, N_label_eligible, BoolCell(TRUE))
    IN  AddCells(c2, N_readmitted_missing,
            [i \in 1..Len(c2.data) |-> BoolCell(IsNa(Col(c2, label_col)[i]))])

\* the index of labeled: claims['label_eligible'] & ~claims['readmitted_missing']
LabeledIndex(flagged) ==
    SelectFrom(Range(Len(flagged.data)),
               LAMBDA i : /\ Col(flagged, N_label_eligible)[i].n = 1
                          /\ Col(flagged, N_readmitted_missing)[i].n = 0, 1)

key_candidates == <<<<"p","a","t","i","e","n","t","_","i","d">>, <<"m","e","m","b","e","r","_","i","d">>, <<"p","e","r","s","o","n","_","i","d">>>>
pt_suffix == <<"_","p","t">>
N_id == <<"i","d">>
N_date == <<"d","a","t","e">>

\* a column's dtype as select_dtypes sees it: 'object' when a cell is a
\* string, 'number' when every cell is a number or NaN
IsObjectColumn(X, c) == \E i \in 1..Len(X.data) : Col(X, c)[i].t = "str"
IsNumberColumn(X, c) ==
    /\ Len(X.data) > 0
    /\ \A i \in 1..Len(X.data) : Col(X, c)[i].t \in {"int", "float", "nan"}

\* patients_clean.isna().sum() for one column
NMissing(X, c) == Cardinality({i \in 1..Len(X.data) : IsNa(Col(X, c)[i])})

Max(a, b) == IF a >= b THEN a ELSE b

\* pct > 60.0 and c not in id_cols, with pct = 100 * n_missing / max(len, 1)
IsHighMissing(X, c) ==
    /\ 100 * NMissing(X, c) > HighMissingPct * Max(Len(X.data), 1)
    /\ ~InSeq(c, key_candidates)

\* patients_clean.drop(columns=high_missing)
DropHighMissing(X) ==
    LET kept == SelectFrom(X.columns, LAMBDA c : ~IsHighMissing(X, c), 1)
    IN  Frame(kept, [i \in 1..Len(X.data) |->
                        [j \in 1..Len(kept) |-> Col(X, kept[j])[i]]])

\* the sorted values of a bag of numbers given as a sequence
RECURSIVE SortNums(_)
SortNums(seq) ==
    IF seq = <<>> THEN <<>>
    ELSE LET k == CHOOSE i \in 1..Len(seq) : \A j \in 1..Len(seq) : seq[i] <= seq[j]
         IN  <<seq[k]>> \o SortNums(SubSeq(seq, 1, k - 1) \o SubSeq(seq, k + 1, Len(seq)))

\* Series.median(): NaN skipped; the middle value, or the mean of the two
\* middle values (the numeric cells of the tables drawn are even, so the mean
\* is a whole number); NaN for a column without a value
Median(cells) ==
    LET present == SelectFrom(cells, LAMBDA c : ~IsNa(c), 1)
        vals == SortNums([i \in 1..Len(present) |-> present[i].n])
        n == Len(vals)
    IN  IF n = 0 THEN NaN
        ELSE IF n % 2 = 1 THEN FloatCell(vals[(n + 1) \div 2])
        ELSE FloatCell((vals[n \div 2] + vals[(n \div 2) + 1]) \div 2)

\* the flag column and the fill of one column: f"{c}_was_missing" and fillna
FlagAndFill(X, c, fill) ==
    LET cells == Col(X, c)
        flagged == AddCells(X, c \o was_missing_suffix,
                       [i \in 1..Len(cells) |->
                           IntCell(IF IsNa(cells[i]) THEN 1 ELSE 0)])
    IN  SetColumn(flagged, c,
            [i \in 1..Len(cells) |-> IF IsNa(cells[i]) THEN fill ELSE cells[i]])

RECURSIVE FlagAndFillAll(_, _, _, _)
FlagAndFillAll(X, cols, k, numeric) ==
    IF k > Len(cols) THEN X
    ELSE FlagAndFillAll(
             FlagAndFill(X, cols[k],
                 IF numeric THEN Median(Col(X, cols[k])) ELSE StrCell(Unknown)),
             cols, k + 1, numeric)

\* lines 66-81: patients_clean
patients_clean(patients) ==
    LET kept == DropHighMissing(patients)
        cat_cols == SelectFrom(kept.columns,
                        LAMBDA c : IsObjectColumn(kept, c) /\ ~InSeq(c, key_candidates), 1)
        num_cols == SelectFrom(kept.columns,
                        LAMBDA c : IsNumberColumn(kept, c) /\ ~InSeq(c, key_candidates), 1)
    IN  FlagAndFillAll(FlagAndFillAll(kept, cat_cols, 1, FALSE), num_cols, 1, TRUE)

\* keys = [k for k in key_candidates if k in both tables]
join_keys(left, right) ==
    SelectFrom(key_candidates,
               LAMBDA k : InSeq(k, left.columns) /\ InSeq(k, right.columns), 1)

\* the rows of the right table whose key equals a left row's key
RightMatches(right, key, cell) ==
    SelectFrom(Range(Len(right.data)), LAMBDA j : Col(right, key)[j] = cell, 1)

\* the pairs <<left row, right row or 0>> of a left join, in the left order
RECURSIVE JoinPairs(_, _, _, _)
JoinPairs(left, right, key, i) ==
    IF i > Len(left.data) THEN <<>>
    ELSE LET hits == RightMatches(right, key, Col(left, key)[i])
         IN  (IF hits = <<>> THEN << <<i, 0>> >>
              ELSE [k \in 1..Len(hits) |-> <<i, hits[k]>>])
             \o JoinPairs(left, right, key, i + 1)

\* labeled.merge(patients_clean, on=key, how='left', suffixes=('', '_pt')):
\* a right column whose name the left table has too gets the suffix
merge(left, right, key) ==
    LET pairs == JoinPairs(left, right, key, 1)
        rcols == SelectFrom(right.columns, LAMBDA c : c # key, 1)
        named == [j \in 1..Len(rcols) |->
                     IF InSeq(rcols[j], left.columns) THEN rcols[j] \o pt_suffix
                     ELSE rcols[j]]
    IN  Frame(left.columns \o named,
              [p \in 1..Len(pairs) |->
                  left.data[pairs[p][1]] \o
                  [j \in 1..Len(rcols) |->
                      IF pairs[p][2] = 0 THEN NaN
                      ELSE Col(right, rcols[j])[pairs[p][2]]]])

\* X: the columns of data but the label, the id-like and the date-like ones
feature_columns(columns, label_col) ==
    SelectFrom(columns,
               LAMBDA c : /\ c # label_col
                          /\ ~Contains(Lower(c), N_id)
                          /\ ~Contains(Lower(c), N_date), 1)

\* ceil(test_size * n) and the rest, as the splitters size the two parts
NTest(n) == (TestSizePct * n + 99) \div 100
NTrain(n) == n - NTest(n)

\* the two splitters: each result is a set of positions for validation. The
\* seeded shuffle is not modelled: every choice of the right size is allowed.
GroupSplits(groups) ==
    LET uniq == {groups[i] : i \in 1..Len(groups)}
    IN  {{i \in 1..Len(groups) : groups[i] \in T} :
            T \in {U \in SUBSET uniq : Cardinality(U) = NTest(Cardinality(uniq))}}

\* train_test_split(..., stratify=y) raises for no rows, an empty part, a
\* class with one member, or a part smaller than the number of classes
StratifiedSplitRaises(y) ==
    LET n == Len(y)
        classes == {y[i] : i \in 1..n}
    IN  \/ n = 0
        \/ NTrain(n) = 0
        \/ \E c \in classes : Cardinality({i \in 1..n : y[i] = c}) < 2
        \/ NTrain(n) < Cardinality(classes)
        \/ NTest(n) < Cardinality(classes)

StratifiedSplits(y) ==
    {V \in SUBSET (1..Len(y)) : Cardinality(V) = NTest(Len(y))}

(***************************************************************************)
(* train.py: train_and_save on bounded tables                              *)
(***************************************************************************)
MaxClaims == 3

N_patient_id == <<"p","a","t","i","e","n","t","_","i","d">>
N_person_id == <<"p","e","r","s","o","n","_","i","d">>
N_discharge_date == <<"d","i","s","c","h","a","r","g","e","_","d","a","t","e">>
N_service_to == <<"s","e","r","v","i","c","e","_","t","o">>
N_readmitted == <<"r","e","a","d","m","i","t","t","e","d">>
N_Readmit_Flag == <<"R","e","a","d","m","i","t","_","F","l","a","g">>
N_target == <<"t","a","r","g","e","t">>
N_name == <<"n","a","m","e">>

\* the encounters drawn: patient key, discharge date, cost, label
Encounters == <<
    [k |-> 1, d |-> DateCell(0), c |-> FloatCell(10), y |-> IntCell(1)],
    [k |-> 2, d |-> DateCell(31), c |-> FloatCell(30), y |-> IntCell(0)],
    [k |-> 1, d |-> DateCell(1), c |-> FloatCell(20), y |-> StrCell(<<"Y","e","s"," ">>)],
    [k |-> 2, d |-> StrCell(<<"n","/","a">>), c |-> NaN, y |-> IntCell(1)],
    [k |-> 3, d |-> DateCell(1), c |-> FloatCell(40), y |-> StrCell(<<"m","a","y","b","e">>)],
    [k |-> 1, d |-> DateCell(30), c |-> FloatCell(50), y |-> StrCell(<<"n","o">>)],
    [k |-> 2, d |-> DateCell(0), c |-> FloatCell(60), y |-> NaN] >>

\* the sub-sequences of seq from position k on with at most n elements
RECURSIVE SubSeqs(_, _, _)
SubSeqs(seq, k, n) ==
    IF k > Len(seq) \/ n = 0 THEN {<<>>}
    ELSE SubSeqs(seq, k + 1, n) \cup
         {<<seq[k]>> \o rest : rest \in SubSeqs(seq, k + 1, n - 1)}

\* three layouts of claims.csv
ClaimsTables(es) == {
    Frame(<<N_patient_id, N_discharge_date, N_cost, N_readmitted>>,
          [i \in 1..Len(es) |-> <<IntCell(es[i].k), es[i].d, es[i].c, es[i].y>>]),
    Frame(<<N_patient_id, N_Readmit_Flag>>,
          [i \in 1..Len(es) |-> <<IntCell(es[i].k), es[i].y>>]),
    Frame(<<N_service_to, N_discharge_date, N_person_id, N_cost, N_target>>,
          [i \in 1..Len(es) |->
              <<DateCell(100), es[i].d, IntCell(es[i].k), es[i].c, es[i].y>>]) }

\* patients.csv: one row per patient; a patient listed twice; another key
\* with a column claims has too and one nearly empty; no key at all
PatientsTables == {
    Frame(<<N_patient_id, N_gender, N_age>>,
          << <<IntCell(1), StrCell(<<"F">>), IntCell(40)>>,
             <<IntCell(2), NaN, NaN>> >>),
    Frame(<<N_patient_id, N_gender, N_age>>,
          << <<IntCell(1), StrCell(<<"F">>), IntCell(40)>>,
             <<IntCell(1), StrCell(<<"M">>), IntCell(60)>>,
             <<IntCell(2), StrCell(<<"F">>), IntCell(20)>> >>),
    Frame(<<N_person_id, N_cost, N_smoker>>,
          << <<IntCell(1), IntCell(10), NaN>>,
             <<IntCell(3), NaN, NaN>>,
             <<IntCell(2), IntCell(30), StrCell(<<"y">>)>> >>),
    Frame(<<N_name, N_gender>>,
          << <<StrCell(<<"a","n","n">>), StrCell(<<"F">>)>> >>) }

\* the LABEL_COL environment variable
LabelEnvs == {None, Some(<<"R","E","A","D","M","I","T","T","E","D">>)}

TrainOff ==
    [pc |-> "off", claims |-> EmptyFrame, patients |-> EmptyFrame,
     LABEL_COL |-> None, label_col |-> <<>>, flagged |-> EmptyFrame,
     labeled_idx |-> <<>>, data |-> EmptyFrame, src |-> <<>>,
     grouped |-> FALSE, groups |-> <<>>, feat_names |-> <<>>, y |-> <<>>,
     train_idx |-> {}, valid_idx |-> {}, feature_names |-> <<>>,
     n_train |-> 0, n_valid |-> 0, status |-> "none"]

InitTrain ==
    \E es \in SubSeqs(Encounters, 1, MaxClaims) :
    \E claims \in ClaimsTables(es), patients \in PatientsTables, env \in LabelEnvs :
        tr = [TrainOff EXCEPT !.pc = "prepare", !.claims = claims,
                              !.patients = patients, !.LABEL_COL = env]

\* prepare_features, lines 43-64: the label column, the flags, labeled
PrepareLabels ==
    /\ tr.pc = "prepare"
    /\ LET found == _detect_label_column(tr.claims.columns, tr.LABEL_COL)
       IN  IF ~found.ok
           THEN tr' = [tr EXCEPT !.pc = "done", !.status = "ValueError"]
           ELSE LET flagged == FlaggedClaims(tr.claims, found.col)
                IN  tr' = [tr EXCEPT !.pc = "join", !.label_col = found.col,
                                     !.flagged = flagged,
                                     !.labeled_idx = LabeledIndex(flagged)]
    /\ UNCHANGED <<det, serveVars, cli>>

\* prepare_features, lines 66-97: patients_clean, the join, X and y
JoinFeatures ==
    /\ tr.pc = "join"
    /\ LET labeled == Rows(tr.flagged, tr.labeled_idx)
           right == patients_clean(tr.patients)
           keys == join_keys(labeled, right)
           data == IF keys # <<>> THEN merge(labeled, right, keys[1]) ELSE labeled
           pairs == IF keys # <<>> THEN JoinPairs(labeled, right, keys[1], 1)
                    ELSE [i \in 1..Len(labeled.data) |-> <<i, 0>>]
       IN  tr' = [tr EXCEPT
               !.pc = "split",
               !.data = data,
               !.src = [p \in 1..Len(pairs) |-> tr.labeled_idx[pairs[p][1]]],
               !.grouped = (keys # <<>>),
               !.groups = IF keys # <<>> THEN Col(data, keys[1]) ELSE <<>>,
               !.feat_names = feature_columns(data.columns, tr.label_col),
               !.y = [i \in 1..Len(data.data) |-> Col(data, tr.label_col)[i].n]]
    /\ UNCHANGED <<det, serveVars, cli>>

\* groups is not None and len(groups.unique()) > 1
UsesGroups ==
    tr.grouped /\ Cardinality({tr.groups[i] : i \in 1..Len(tr.groups)}) > 1

\* lines 99-103: GroupShuffleSplit
SplitByGroup ==
    /\ tr.pc = "split"
    /\ UsesGroups
    /\ \E V \in GroupSplits(tr.groups) :
           tr' = [tr EXCEPT !.pc = "fit", !.valid_idx = V,
                            !.train_idx = (1..Len(tr.y)) \ V]
    /\ UNCHANGED <<det, serveVars, cli>>

\* line 105: train_test_split with stratify=y
SplitStratified ==
    /\ tr.pc = "split"
    /\ ~UsesGroups
    /\ ~StratifiedSplitRaises(tr.y)
    /\ \E V \in StratifiedSplits(tr.y) :
           tr' = [tr EXCEPT !.pc = "fit", !.valid_idx = V,
                            !.train_idx = (1..Len(tr.y)) \ V]
    /\ UNCHANGED <<det, serveVars, cli>>

\* line 105 raises
SplitRaises ==
    /\ tr.pc = "split"
    /\ ~UsesGroups
    /\ StratifiedSplitRaises(tr.y)
    /\ tr' = [tr EXCEPT !.pc = "done", !.status = "ValueError"]
    /\ UNCHANGED <<det, serveVars, cli>>

\* train_and_save, lines 143-164: the fit, the bundle and the model card
TrainAndSave ==
    /\ tr.pc = "fit"
    /\ tr' = [tr EXCEPT !.pc = "done", !.status = "saved",
                        !.feature_names = tr.feat_names,
                        !.n_train = Cardinality(tr.train_idx),
                        !.n_valid = Cardinality(tr.valid_idx)]
    /\ UNCHANGED <<det, serveVars, cli>>

\* the fit or a metric raises (the library rejects the sample): nothing saved
TrainRaises ==
    /\ tr.pc = "fit"
    /\ tr' = [tr EXCEPT !.pc = "done", !.status = "fit_error"]
    /\ UNCHANGED <<det, serveVars, cli>>

NextTrain ==
    \/ PrepareLabels
    \/ JoinFeatures
    \/ SplitByGroup
    \/ SplitStratified
    \/ SplitRaises
    \/ TrainAndSave
    \/ TrainRaises

(***************************************************************************)
(* Properties of the trainer                                               *)
(***************************************************************************)
\* prepare_features has selected the labeled rows
LabeledKnown == tr.pc \in {"join", "split", "fit"} \/ tr.status \in {"saved", "fit_error"}
    \/ (tr.pc = "done" /\ tr.label_col # <<>>)

\* C9: a claims row is kept exactly when its label is non-missing after the
\* yes/no mapping (a value outside the vocabulary is missing) and it is
\* eligible: with a recognised date column, its date in the first of them
\* parses and is at most the maximum date minus 30 days; without one, always.
C9_LabeledRows ==
    LabeledKnown =>
        LET cells == Col(tr.claims, tr.label_col)
            numeric == /\ cells # <<>>
                       /\ \A i \in 1..Len(cells) : cells[i].t \in {"int", "float", "nan"}
            vocabulary == {<<"y","e","s">>, <<"y">>, <<"t","r","u","e">>, <<"t">>, <<"1">>,
                           <<"n","o">>, <<"n">>, <<"f","a","l","s","e">>, <<"f">>, <<"0">>}
            LabelPresent(i) ==
                IF numeric THEN cells[i].t # "nan"
                ELSE Lower(Strip(AsStr(cells[i]))) \in vocabulary
            recognised == <<<<"d","i","s","c","h","a","r","g","e","_","d","a","t","e">>, <<"i","n","d","e","x","_","d","i","s","c","h","a","r","g","e","_","d","a","t","e">>,
                            <<"e","n","c","o","u","n","t","e","r","_","e","n","d">>, <<"c","l","a","i","m","_","e","n","d","_","d","a","t","e">>, <<"s","e","r","v","i","c","e","_","t","o">>>>
            present == {k \in 1..Len(recognised) : InSeq(recognised[k], tr.claims.columns)}
            dates == Col(tr.claims, recognised[Least(present)])
            Eligible(i) ==
                \/ present = {}
                \/ /\ dates[i].t = "date"
                   /\ \E j \in 1..Len(dates) :
                         /\ dates[j].t = "date"
                         /\ \A k \in 1..Len(dates) :
                               dates[k].t = "date" => dates[k].n <= dates[j].n
                         /\ dates[i].n + 30 <= dates[j].n
        IN  /\ {tr.labeled_idx[p] : p \in 1..Len(tr.labeled_idx)} =
                  {i \in 1..Len(tr.claims.data) : LabelPresent(i) /\ Eligible(i)}
            /\ \A p \in 1..(Len(tr.labeled_idx) - 1) :
                  tr.labeled_idx[p] < tr.labeled_idx[p + 1]

\* C9 happens: of three encounters dated day 31, day 1 and unparseable, with
\* labels 0, 'Yes ' and 1, only the one exactly 30 days before the maximum
\* is kept
C9_Witness ==
    /\ tr.pc = "join"
    /\ tr.claims.columns = <<N_patient_id, N_discharge_date, N_cost, N_readmitted>>
    /\ Col(tr.claims, N_discharge_date) =
           <<DateCell(31), DateCell(1), StrCell(<<"n","/","a">>)>>
    /\ tr.labeled_idx = <<2>>

\* C6: the two partitions are disjoint and hold exactly the labeled, eligible
\* claims rows, each once, so n_train + n_valid is their count.
C6_PartitionsAreTheLabeledRows ==
    tr.status = "saved" =>
        /\ tr.train_idx \cap tr.valid_idx = {}
        /\ tr.n_train + tr.n_valid = Len(tr.labeled_idx)
        /\ \A i \in 1..Len(tr.labeled_idx) :
              Cardinality({p \in tr.train_idx \cup tr.valid_idx :
                              tr.src[p] = tr.labeled_idx[i]}) = 1

(***************************************************************************)
(* Specifications                                                          *)
(***************************************************************************)
\* the parts of the state a specification does not use, held fixed
DetectOff == det = [pc |-> "off", cols |-> <<>>, explicit |-> None, out |-> ValueError]
ServeOff ==
    /\ MODEL_PATH_ENV = LocalPath
    /\ store = NoneObj
    /\ tmp_file = NoneObj
    /\ _DOWNLOADED_PATH = None
    /\ _bundle = NoneObj
    /\ _expected_features = NoFeatures
    /\ req = [r \in Requests |-> IdleRequest]
    /\ running = 0
    /\ started = <<>>
    /\ loadedBy = <<>>
    /\ nDownloads = 0

\* the serving process
Init == InitServe /\ DetectOff /\ cli = CliOff /\ tr = TrainOff
Next ==
    \E r \in Requests :
        \/ Arrive(r)
        \/ Begin(r)
        \/ GpCheck(r)
        \/ Resolve(r)
        \/ Download(r)
        \/ DownloadFails(r)
        \/ Load(r)
        \/ LoadFails(r)
        \/ GpFeatures(r)
        \/ GpReturn(r)
        \/ MakeFrame(r)
        \/ Align(r)
        \/ Predict(r)
        \/ Metadata(r)
        \/ Healthz(r)
Spec == Init /\ [][Next]_vars

\* the label detector on every bounded table
InitDetectSpec == InitDetect /\ ServeOff /\ cli = CliOff /\ tr = TrainOff
NextDetect == DetectLabel
SpecDetect == InitDetectSpec /\ [][NextDetect]_vars

\* one run of the batch CLI for every artifact and input file
InitCliSpec == InitCli /\ ServeOff /\ DetectOff /\ tr = TrainOff
SpecCLI == InitCliSpec /\ [][NextCli]_vars

\* one training run for every pair of bounded tables
InitTrainSpec == InitTrain /\ ServeOff /\ DetectOff /\ cli = CliOff
SpecTrain == InitTrainSpec /\ [][NextTrain]_vars

====
